---- MODULE Spec2Model ----
(***************************************************************************)
(* Model of src/app.py: the slide-duration allocation                      *)
(* (calculate_default_durations), the shortfall step and manifest          *)
(* construction of generate_video_with_ffmpeg, and the Streamlit session   *)
(* that sequences script generation, audio synthesis and video rendering.  *)
(*                                                                         *)
(* Durations are Python floats.  They are modelled as binary floating      *)
(* point numbers with Precision significand bits, round-to-nearest-even,   *)
(* gradual underflow, and a smallest unit of 2^-FracBits seconds: a float  *)
(* is the integer number of units it holds.  Python's float is the same    *)
(* format with 53 significand bits.                                        *)
(***************************************************************************)
EXTENDS Integers, Sequences, FiniteSets, TLC

VARIABLES
    introduction,       \* text of the Introduction text area
    conclusion,         \* text of the Conclusion text area
    session_state,      \* st.session_state: a function on the keys present
    uploads,            \* paths whose file uploader holds a file
    video_button,       \* whether the latest run drew the Generate Video button
    remote_calls,       \* HTTP collaborators called in the latest run, in order
    failures,           \* collaborators that failed in the latest run
    sections,           \* argument of calculate_default_durations
    total_duration,     \* argument of calculate_default_durations
    default_durations,  \* its return value (NotCalled before the call)
    ffmpeg_installed,   \* whether the ffmpeg binary is on the PATH
    audio_file,         \* duration of output_audio.mp3 (None: no such file)
    section_images,     \* argument of generate_video_with_ffmpeg
    section_durations,  \* argument of generate_video_with_ffmpeg, a list the
                        \* function changes in place
    probes,             \* what get_audio_duration returned in each call so far
    user_durations,     \* the caller's list as it was passed to the latest call
                        \* (in the session: as collected from the number inputs)
    image_list,         \* lines of image_list.txt (NoFile: never opened)
    ffmpeg_calls,       \* ffmpeg runs of the latest call, in order
    video,              \* return value of the latest call
    pc                  \* position of the calling harness

allocVars  == <<sections, total_duration, default_durations>>
renderVars == <<ffmpeg_installed, audio_file, section_images, section_durations,
                probes, user_durations, image_list, ffmpeg_calls, video>>
uiVars     == <<introduction, conclusion, session_state, uploads, video_button,
                remote_calls, failures>>
vars == <<uiVars, allocVars, renderVars, pc>>

----------------------------------------------------------------------------
(* Bounds of the model *)

Precision == 4
FracBits == 8
MaxSlides == 4
MaxRenderSlides == 3
MaxSections == 2

----------------------------------------------------------------------------
(* Floating point arithmetic *)

Second == 2 ^ FracBits

RECURSIVE Exponent(_, _, _)
\* The k >= 0 with n/d < 2^(Precision+k), smallest such: the binade of n/d.
Exponent(n, d, k) ==
    IF n < d * 2 ^ (Precision + k) THEN k ELSE Exponent(n, d, k + 1)

\* n/d (n >= 0, d > 0) rounded to the nearest integer, ties to even.
RoundHalfEven(n, d) ==
    LET q == n \div d
        r == n % d
    IN  IF 2 * r < d THEN q
        ELSE IF 2 * r > d THEN q + 1
        ELSE IF q % 2 = 0 THEN q ELSE q + 1

\* The float nearest to the real n/d units (d > 0), ties to even.
Round(n, d) ==
    LET a == IF n < 0 THEN -n ELSE n
        k == Exponent(a, d, 0)
        m == RoundHalfEven(a, d * 2 ^ k) * 2 ^ k
    IN  IF n < 0 THEN -m ELSE m

\* The float a decimal literal n/d seconds denotes.
Float(n, d) == Round(n * Second, d)

fadd(a, b) == Round(a + b, 1)
fsub(a, b) == Round(a - b, 1)
fmul(a, b) == Round(a * b, Second)
\* float / int
fdiv(a, n) == Round(a, n)
\* int / int (true division)
truediv(m, n) == Round(m * Second, n)

RECURSIVE SumFrom(_, _, _)
SumFrom(acc, s, i) ==
    IF i > Len(s) THEN acc ELSE SumFrom(fadd(acc, s[i]), s, i + 1)

\* sum(s) of floats: left to right from 0, each addition rounded.
fsum(s) == SumFrom(0, s, 1)

RECURSIVE ExactSumFrom(_, _)
ExactSumFrom(s, i) == IF i > Len(s) THEN 0 ELSE s[i] + ExactSumFrom(s, i + 1)

\* The real-number sum of s, in units.
ExactSum(s) == ExactSumFrom(s, 1)

fmax(a, b) == IF a >= b THEN a ELSE b

\* Python's None where a float is expected.
None == -1

----------------------------------------------------------------------------
(* calculate_default_durations *)

MinSlideSeconds == 5

RECURSIVE CharsFrom(_, _)
CharsFrom(s, i) ==
    IF i > Len(s) THEN 0
    ELSE (IF s[i] # "" THEN Len(s[i]) ELSE 0) + CharsFrom(s, i + 1)

\* sum(len(str(section)) for section in sections if section)
TotalChars(s) == CharsFrom(s, 1)

\* (len(str(section)) / total_chars) * float(total_duration)
Share(section, total_chars, T) == fmul(truediv(Len(section), total_chars), T)

fmin(a, b) == IF a <= b THEN a ELSE b

\* An allocation that caps each slide at the floor instead of raising it.
calculate_default_durations_Capped(s, T) ==
    LET total_chars   == TotalChars(s)
        section_count == Len(s)
    IN  IF total_chars = 0
        THEN IF section_count # 0
             THEN [i \in 1..section_count |-> fdiv(T, section_count)]
             ELSE <<>>
        ELSE [i \in 1..section_count |->
                 fmin(Float(MinSlideSeconds, 1), Share(s[i], total_chars, T))]

\* An allocation that applies the floor to the even split as well.
calculate_default_durations_FloorsEvenSplit(s, T) ==
    LET total_chars   == TotalChars(s)
        section_count == Len(s)
    IN  IF total_chars = 0
        THEN [i \in 1..section_count |->
                 fmax(Float(MinSlideSeconds, 1), fdiv(T, section_count))]
        ELSE [i \in 1..section_count |->
                 fmax(Float(MinSlideSeconds, 1), Share(s[i], total_chars, T))]

calculate_default_durations(s, T) ==
    LET total_chars   == TotalChars(s)
        section_count == Len(s)
    IN  IF total_chars = 0
        THEN IF section_count # 0
             THEN [i \in 1..section_count |-> fdiv(T, section_count)]
             ELSE <<>>
        ELSE [i \in 1..section_count |->
                 fmax(Float(MinSlideSeconds, 1), Share(s[i], total_chars, T))]

----------------------------------------------------------------------------
(* generate_video_with_ffmpeg *)

Min(a, b) == IF a <= b THEN a ELSE b

\* A shortfall step that extends the first slide instead of the last.
ShortfallStep_ExtendsFirst(durations, audio_duration) ==
    LET total_video_duration == fsum(durations)
    IN  IF total_video_duration < audio_duration
        THEN [durations EXCEPT ![1] =
                 fadd(@, fsub(audio_duration, total_video_duration))]
        ELSE durations

\* The shortfall step: extend the last slide when the slides sum to less than
\* the audio.  Callers pass a non-empty list when there is a shortfall.
ShortfallStep(durations, audio_duration) ==
    LET total_video_duration == fsum(durations)
    IN  IF total_video_duration < audio_duration
        THEN [durations EXCEPT ![Len(durations)] =
                 fadd(@, fsub(audio_duration, total_video_duration))]
        ELSE durations

\* f"resized_{i}.jpg", i counted from 0
ResizedImage(i) == "resized_" \o ToString(i) \o ".jpg"

ResizedImages(images) == [i \in 1..Len(images) |-> ResizedImage(i - 1)]

ResizeCalls(images) ==
    [i \in 1..Len(images) |->
        "ffmpeg -y -i " \o images[i] \o " -vf scale=1280:720 "
            \o ResizedImage(i - 1)]

EncoderCall ==
    "ffmpeg -y -f concat -safe 0 -i image_list.txt -i output_audio.mp3 "
        \o "-c:v libx264 -preset fast -pix_fmt yuv420p -c:a aac -shortest "
        \o "final_video.mp4"

FileLine(image) == "file '" \o image \o "'"

\* f"duration {duration}": the float printed so that it reads back as itself;
\* the model prints the number of units.
DurationLine(duration) == "duration " \o ToString(duration)

RECURSIVE ZipLines(_, _, _)
\* for image, duration in zip(resized_images, section_durations): two lines
ZipLines(resized_images, durations, i) ==
    IF i > Min(Len(resized_images), Len(durations)) THEN <<>>
    ELSE <<FileLine(resized_images[i]), DurationLine(durations[i])>>
             \o ZipLines(resized_images, durations, i + 1)

\* A manifest without the repeated last image.
Manifest_NoRepeat(resized_images, durations) ==
    ZipLines(resized_images, durations, 1)

\* The lines written to image_list.txt; resized_images is non-empty.
Manifest(resized_images, durations) ==
    ZipLines(resized_images, durations, 1)
        \o <<FileLine(resized_images[Len(resized_images)])>>

NoVideo == "None"

\* One call.  audio_duration is what get_audio_duration returned, installed
\* whether running ffmpeg finds the binary, returncode the encoder's status.
\* opened tells whether image_list.txt was opened for writing (and truncated).
generate_video_with_ffmpeg(audio_duration, images, durations, installed, returncode) ==
    LET failed(d, opened, lines, calls) ==
            [section_durations |-> d, opened |-> opened, image_list |-> lines,
             ffmpeg_calls |-> calls, result |-> NoVideo]
    IN  IF audio_duration = None
        THEN \* TypeError comparing a float with None
             failed(durations, FALSE, <<>>, <<>>)
        ELSE IF fsum(durations) < audio_duration /\ durations = <<>>
        THEN \* IndexError on section_durations[-1]
             failed(durations, FALSE, <<>>, <<>>)
        ELSE LET normalized == ShortfallStep(durations, audio_duration)
                 resized    == ResizedImages(images)
             IN  IF images # <<>> /\ ~installed
                 THEN \* FileNotFoundError from the first resize
                      failed(normalized, FALSE, <<>>, <<>>)
                 ELSE IF images = <<>>
                 THEN \* IndexError on resized_images[-1], the file open and empty
                      failed(normalized, TRUE, <<>>, <<>>)
                 ELSE [section_durations |-> normalized,
                       opened            |-> TRUE,
                       image_list        |-> Manifest(resized, normalized),
                       ffmpeg_calls      |-> ResizeCalls(images) \o <<EncoderCall>>,
                       result            |-> IF returncode = 0
                                             THEN "final_video.mp4" ELSE NoVideo]

----------------------------------------------------------------------------
(* Inputs *)

RenderAudioValues == {Float(11, 1), Float(12, 1), Float(15, 1)}

DurValues == {Float(1, 1), Float(7, 4), Float(4, 1), Float(9, 1)}

ImagePath(i) == "image_" \o ToString(i) \o ".jpg"

TextValues == {"", "a", "Intro text", "Point one", "Point two", "Conclusion"}

AudioValues ==
    {Float(11, 1), Float(12, 1), Float(15, 1), Float(30, 1), Float(40, 1)}

SeqsUpTo(S, n) == UNION {[1..k -> S] : k \in 0..n}

NotCalled == <<-1>>

NoFile == <<"no file">>

----------------------------------------------------------------------------
(* Harness of calculate_default_durations *)

InitAlloc ==
    /\ introduction = ""
    /\ conclusion = ""
    /\ session_state = << >>
    /\ uploads = {}
    /\ video_button = FALSE
    /\ remote_calls = <<>>
    /\ failures = {}
    /\ sections \in SeqsUpTo(TextValues, MaxSlides)
    /\ total_duration \in AudioValues
    /\ default_durations = NotCalled
    /\ pc = "start"
    /\ ffmpeg_installed = TRUE
    /\ audio_file = None
    /\ section_images = <<>>
    /\ section_durations = <<>>
    /\ probes = <<>>
    /\ user_durations = <<>>
    /\ image_list = NoFile
    /\ ffmpeg_calls = <<>>
    /\ video = "not called"

Allocate ==
    /\ pc = "start"
    /\ default_durations' = calculate_default_durations(sections, total_duration)
    /\ pc' = "allocated"
    /\ UNCHANGED <<sections, total_duration, renderVars, uiVars>>

NextAlloc == Allocate

SpecAlloc == InitAlloc /\ [][NextAlloc]_vars

----------------------------------------------------------------------------
(* Harness of generate_video_with_ffmpeg: a caller that holds a list of
   durations and attempts the render twice with the same list *)

InitRender ==
    /\ introduction = ""
    /\ conclusion = ""
    /\ session_state = << >>
    /\ uploads = {}
    /\ video_button = FALSE
    /\ remote_calls = <<>>
    /\ failures = {}
    /\ sections = <<>>
    /\ total_duration = None
    /\ default_durations = NotCalled
    /\ pc = "start"
    /\ ffmpeg_installed \in BOOLEAN
    /\ audio_file \in RenderAudioValues
    /\ \E k \in 0..MaxRenderSlides :
           section_images = [i \in 1..k |-> ImagePath(i)]
    /\ section_durations \in SeqsUpTo(DurValues, MaxRenderSlides)
    /\ probes = <<>>
    /\ user_durations = <<>>
    /\ image_list = NoFile
    /\ ffmpeg_calls = <<>>
    /\ video = "not called"

\* get_audio_duration: the duration of the file, or None when ffprobe fails
ProbeResults(file) == {file, None}

Render ==
    /\ pc \in {"start", "rendered"}
    /\ \E audio_duration \in ProbeResults(audio_file), returncode \in {0, 1} :
           \E r \in {generate_video_with_ffmpeg(audio_duration, section_images,
                        section_durations, ffmpeg_installed, returncode)} :
               /\ section_durations' = r.section_durations
               /\ image_list' = IF r.opened THEN r.image_list ELSE image_list
               /\ ffmpeg_calls' = r.ffmpeg_calls
               /\ video' = r.result
               /\ probes' = Append(probes, audio_duration)
    /\ user_durations' = section_durations
    /\ pc' = IF pc = "start" THEN "rendered" ELSE "rendered again"
    /\ UNCHANGED <<allocVars, uiVars, ffmpeg_installed, audio_file, section_images>>

NextRender == Render

SpecRender == InitRender /\ [][NextRender]_vars

----------------------------------------------------------------------------
(* The Streamlit session: every user event reruns the whole script *)

SessionTexts == {"", "a"}

SessionAudioValues == {Float(12, 1)}

\* Which number input the user has changed
UserChoices == {0, 1}

LLMText == "Generated narration."

LLMError == "Error generating content: Connection error."

EditedScript == "Edited narration."

\* generate_section_content: the completion, or on any exception the error
\* message, returned as the section's content
generate_section_content(chunk, notes, ok) == IF ok THEN LLMText ELSE LLMError

RECURSIVE SectionContents(_, _, _)
SectionContents(chunks, oks, i) ==
    IF i > Len(chunks) THEN ""
    ELSE generate_section_content(chunks[i].chunk, chunks[i].notes, oks[i])
             \o "\n\n" \o SectionContents(chunks, oks, i + 1)

\* full_script as the Generate Script handler builds it
FullScript(intro, chunks, concl, oks) ==
    intro \o "\n\n" \o SectionContents(chunks, oks, 1) \o concl

NoAudio == "None"

\* generate_audio_from_text: the response body on status 200, else None
generate_audio_from_text(text, response) ==
    IF response = "200" THEN "mp3 bytes"
    ELSE IF response = "200 empty" THEN ""
    ELSE NoAudio

TTSResponses == {"200", "200 empty", "503", "exception"}

\* A handler that stores the audio path whatever the synthesis returned.
Truthy_Always(audio) == TRUE

\* if audio:
Truthy(audio) == audio # NoAudio /\ audio # ""

\* number_input(min_value=1.0)
MinDuration == 1

\* intro.jpg, section_1.jpg .. section_n.jpg, conclusion.jpg
SlidePaths(n) ==
    <<"intro.jpg">> \o [i \in 1..n |-> "section_" \o ToString(i) \o ".jpg"]
        \o <<"conclusion.jpg">>

\* images as the upload block collects them: the slots that hold a file
Images(n, ups) == SelectSeq(SlidePaths(n), LAMBDA path : path \in ups)

SlideTexts(intro, chunks, concl) ==
    <<intro>> \o [i \in 1..Len(chunks) |-> chunks[i].chunk] \o <<concl>>

\* The number inputs: the defaults, with slide `choice` set by the user to the
\* minimum (choice 0 or beyond the last slide: no input touched).
UserDurations(defaults, choice) ==
    [i \in 1..Len(defaults) |->
        IF i = choice THEN Float(MinDuration, 1) ELSE defaults[i]]

\* A check against the slide count of the initial single section.
ImagesComplete_InitialCount(images, chunks) == Len(images) = 3

\* if len(images) == len(st.session_state["chunks"]) + 2:
ImagesComplete(images, chunks) == Len(images) = Len(chunks) + 2

NoRender(button, durations, old_list, fails, probed) ==
    [video_button |-> button, user_durations |-> durations,
     section_images |-> <<>>, section_durations |-> <<>>,
     image_list |-> old_list, ffmpeg_calls |-> <<>>, video |-> "not called",
     failures |-> fails, probes |-> probed]

\* The Video Generation block of one run.  ss is st.session_state as the run
\* has it on reaching the block, probe1 and probe2 what get_audio_duration
\* returns in the block and inside generate_video_with_ffmpeg, clicked whether
\* the run was started by the Generate Video button.
VideoBlock(ss, intro, concl, ups, installed, old_list, probe1, choice, clicked, probe2, returncode) ==
    IF "audio_path" \notin DOMAIN ss
    THEN NoRender(FALSE, <<>>, old_list, {}, <<>>)
    ELSE LET images == Images(Len(ss["chunks"]), ups)
         IN  IF ~ImagesComplete(images, ss["chunks"])
             THEN NoRender(FALSE, <<>>, old_list, {}, <<>>)
             ELSE IF probe1 = None
             THEN \* TypeError in calculate_default_durations ends the run
                  NoRender(FALSE, <<>>, old_list, {"ffprobe"}, <<probe1>>)
             ELSE LET defaults == calculate_default_durations(
                                      SlideTexts(intro, ss["chunks"], concl), probe1)
                      zipped == SubSeq(defaults, 1, Min(Len(images), Len(defaults)))
                      durations == UserDurations(zipped, choice)
                  IN  IF \E i \in DOMAIN zipped : zipped[i] < Float(MinDuration, 1)
                      THEN \* number_input rejects a value below min_value
                           NoRender(FALSE, <<>>, old_list, {}, <<probe1>>)
                      ELSE IF Len(durations) # Len(images)
                      THEN NoRender(FALSE, durations, old_list, {}, <<probe1>>)
                      ELSE IF ~clicked
                      THEN NoRender(TRUE, durations, old_list, {}, <<probe1>>)
                      ELSE LET r == generate_video_with_ffmpeg(probe2, images,
                                        durations, installed, returncode)
                           IN  [video_button      |-> TRUE,
                                user_durations    |-> durations,
                                section_images    |-> images,
                                section_durations |-> r.section_durations,
                                image_list        |-> IF r.opened THEN r.image_list
                                                      ELSE old_list,
                                ffmpeg_calls      |-> r.ffmpeg_calls,
                                video             |-> r.result,
                                failures          |->
                                    (IF probe2 = None THEN {"ffprobe"} ELSE {})
                                    \cup (IF r.result = NoVideo /\ probe2 # None
                                          THEN {"ffmpeg"} ELSE {}),
                                probes            |-> <<probe1, probe2>>]

Init ==
    /\ introduction = ""
    /\ conclusion = ""
    /\ session_state = ("chunks" :> <<[chunk |-> "", notes |-> ""]>>)
    /\ uploads = {}
    /\ video_button = FALSE
    /\ remote_calls = <<>>
    /\ failures = {}
    /\ sections = <<>>
    /\ total_duration = None
    /\ default_durations = NotCalled
    /\ pc = "session"
    /\ ffmpeg_installed = TRUE
    /\ audio_file = None
    /\ section_images = <<>>
    /\ section_durations = <<>>
    /\ probes = <<>>
    /\ user_durations = <<>>
    /\ image_list = NoFile
    /\ ffmpeg_calls = <<>>
    /\ video = "not called"

\* The rest of a run once the handlers above the Video Generation block have
\* run: ss, intro, concl, ups and file are the values they leave.
Finish(ss, intro, concl, ups, file, calls, fails, clicked) ==
    \E r \in {VideoBlock(ss, intro, concl, ups, ffmpeg_installed, image_list,
                          x[1], x[2], clicked, x[3], x[4]) :
                  x \in ProbeResults(file)
                        \X UserChoices
                        \X (IF clicked THEN ProbeResults(file) ELSE {None})
                        \X (IF clicked THEN {0, 1} ELSE {0})} :
        /\ introduction' = intro
        /\ conclusion' = concl
        /\ session_state' = ss
        /\ uploads' = ups
        /\ audio_file' = file
        /\ remote_calls' = calls
        /\ failures' = fails \cup r.failures
        /\ video_button' = r.video_button
        /\ user_durations' = r.user_durations
        /\ section_images' = r.section_images
        /\ section_durations' = r.section_durations
        /\ image_list' = r.image_list
        /\ ffmpeg_calls' = r.ffmpeg_calls
        /\ video' = r.video
        /\ probes' = r.probes
        /\ UNCHANGED <<allocVars, pc, ffmpeg_installed>>

\* The user types in the first section's Content box; line 159 stores it.
EditChunk ==
    \E text \in SessionTexts \ {session_state["chunks"][1].chunk} :
        Finish([session_state EXCEPT !["chunks"][1].chunk = text],
               introduction, conclusion, uploads, audio_file, <<>>, {}, FALSE)

add_section(ss) ==
    [ss EXCEPT !["chunks"] = Append(@, [chunk |-> "", notes |-> ""])]

AddSection ==
    /\ Len(session_state["chunks"]) < MaxSections
    /\ Finish(add_section(session_state), introduction, conclusion, uploads,
              audio_file, <<>>, {}, FALSE)

GenerateScript ==
    \E oks \in [DOMAIN session_state["chunks"] -> BOOLEAN] :
        Finish(("final_script" :>
                   FullScript(introduction, session_state["chunks"], conclusion, oks))
                 @@ session_state,
               introduction, conclusion, uploads, audio_file,
               [i \in DOMAIN session_state["chunks"] |-> "openai"],
               IF \E i \in DOMAIN oks : ~oks[i] THEN {"openai"} ELSE {},
               FALSE)

EditScript ==
    /\ "final_script" \in DOMAIN session_state
    /\ session_state["final_script"] # EditedScript
    /\ Finish([session_state EXCEPT !["final_script"] = EditedScript],
              introduction, conclusion, uploads, audio_file, <<>>, {}, FALSE)

GenerateAudio ==
    /\ "final_script" \in DOMAIN session_state
    /\ \E response \in TTSResponses, duration \in SessionAudioValues :
           LET audio == generate_audio_from_text(session_state["final_script"], response)
               fails == IF response = "200" THEN {} ELSE {"elevenlabs"}
           IN  IF Truthy(audio)
               THEN Finish(("audio_path" :> "output_audio.mp3") @@ session_state,
                           introduction, conclusion, uploads, duration,
                           <<"elevenlabs">>, fails, FALSE)
               ELSE Finish(session_state, introduction, conclusion, uploads,
                           audio_file, <<"elevenlabs">>, fails, FALSE)

Upload ==
    /\ "audio_path" \in DOMAIN session_state
    /\ \E path \in {SlidePaths(Len(session_state["chunks"]))[i] :
                       i \in 1..(Len(session_state["chunks"]) + 2)} \ uploads :
           Finish(session_state, introduction, conclusion, uploads \cup {path},
                  audio_file, <<>>, {}, FALSE)

RemoveUpload ==
    /\ "audio_path" \in DOMAIN session_state
    /\ \E path \in uploads :
           Finish(session_state, introduction, conclusion, uploads \ {path},
                  audio_file, <<>>, {}, FALSE)

GenerateVideo ==
    /\ video_button
    /\ Finish(session_state, introduction, conclusion, uploads, audio_file,
              <<>>, {}, TRUE)

Next ==
    \/ EditChunk
    \/ AddSection
    \/ GenerateScript
    \/ EditScript
    \/ GenerateAudio
    \/ Upload
    \/ RemoveUpload
    \/ GenerateVideo

Spec == Init /\ [][Next]_vars

----------------------------------------------------------------------------
(* Properties of calculate_default_durations *)

RECURSIVE RaisesFrom(_, _, _)
RaisesFrom(s, T, i) ==
    IF i > Len(s) THEN 0
    ELSE fmax(0, Float(MinSlideSeconds, 1) - Share(s[i], TotalChars(s), T))
         + RaisesFrom(s, T, i + 1)

\* The total amount by which the 5-second floor raised individual slides.
FloorRaises(s, T) == IF TotalChars(s) = 0 THEN 0 ELSE RaisesFrom(s, T, 1)

Abs(x) == IF x < 0 THEN -x ELSE x

\* C3 as stated: for non-empty sections the durations returned sum to exactly
\* total_duration plus the amounts the floor added (read as the real sum or
\* as Python's sum()).
C3_SumEqualsTotal ==
    (pc = "allocated" /\ sections # <<>>) =>
        \/ ExactSum(default_durations)
               = total_duration + FloorRaises(sections, total_duration)
        \/ fsum(default_durations)
               = fadd(total_duration, FloorRaises(sections, total_duration))

\* C3 amended: for non-empty sections the real sum of the durations returned
\* differs from total_duration plus the amounts the floor added by at most the
\* rounding error of the two float operations per slide, a relative error of
\* 2^(1-Precision) + 2^(-2*Precision) of total_duration.
C3_SumWithinRounding ==
    (pc = "allocated" /\ sections # <<>>) =>
        Abs(ExactSum(default_durations)
              - (total_duration + FloorRaises(sections, total_duration)))
            * 2 ^ (2 * Precision)
          <= total_duration * (2 ^ (Precision + 1) + 1)

C3_Witness ==
    /\ pc = "allocated"
    /\ sections = <<"Intro text", "Point one", "Point two", "Conclusion">>
    /\ total_duration = Float(40, 1)
    /\ ExactSum(default_durations) # total_duration

\* C7: all sections empty and n >= 1 gives n equal durations total_duration/n
\* (three empty sections and 30 give [10, 10, 10]); zero sections give the
\* empty sequence; the output is always as long as the input.
C7_EvenSplitAndLength ==
    pc = "allocated" =>
        /\ Len(default_durations) = Len(sections)
        /\ sections = <<>> => default_durations = <<>>
        /\ (sections # <<>> /\ \A i \in DOMAIN sections : sections[i] = "") =>
               /\ \A i \in DOMAIN sections :
                      default_durations[i] = fdiv(total_duration, Len(sections))
               /\ Abs(Len(sections) * default_durations[1] - total_duration)
                      * 2 ^ Precision <= total_duration
        /\ (sections = <<"", "", "">> /\ total_duration = Float(30, 1)) =>
               default_durations = <<Float(10, 1), Float(10, 1), Float(10, 1)>>

C7_Witness ==
    /\ pc = "allocated"
    /\ sections = <<"", "", "">>
    /\ total_duration = Float(30, 1)
    /\ default_durations = <<Float(10, 1), Float(10, 1), Float(10, 1)>>

----------------------------------------------------------------------------
(* Properties of generate_video_with_ffmpeg *)

LastProbe == probes[Len(probes)]

\* The latest call passed the probe and was given slides to normalize.
Normalized == pc # "start" /\ LastProbe # None /\ user_durations # <<>>

\* The latest call wrote the manifest and ran the encoder.
ManifestWritten == pc # "start" /\ EncoderCall \in {ffmpeg_calls[i] : i \in DOMAIN ffmpeg_calls}

\* C1: after the shortfall step the durations written to the manifest sum to
\* at least the narration duration (as a real sum or as Python's sum()), for
\* every non-empty list of durations, one per image.
C1_TimelineCoversAudio ==
    (Normalized /\ ManifestWritten /\ Len(section_images) = Len(user_durations)) =>
        \/ ExactSum(section_durations) >= LastProbe
        \/ fsum(section_durations) >= LastProbe

\* C2: with shortfall = narration_duration - sum(durations), a positive
\* shortfall is added to the last duration and every other duration is left
\* unchanged ([4,4,4] with narration 15 becomes [4,4,7]); otherwise the whole
\* list is unchanged.
C2_OnlyLastExtended ==
    Normalized =>
        LET shortfall == fsub(LastProbe, fsum(user_durations))
            n == Len(user_durations)
        IN  /\ Len(section_durations) = n
            /\ \A i \in 1..(n - 1) : section_durations[i] = user_durations[i]
            /\ shortfall > 0 => section_durations[n] = fadd(user_durations[n], shortfall)
            /\ shortfall <= 0 => section_durations[n] = user_durations[n]
            /\ (user_durations = <<Float(4, 1), Float(4, 1), Float(4, 1)>>
                    /\ LastProbe = Float(15, 1)) =>
                   section_durations = <<Float(4, 1), Float(4, 1), Float(7, 1)>>

C2_Witness ==
    /\ pc = "rendered"
    /\ user_durations = <<Float(4, 1), Float(4, 1), Float(4, 1)>>
    /\ LastProbe = Float(15, 1)
    /\ section_durations = <<Float(4, 1), Float(4, 1), Float(7, 1)>>

\* C4: a call with a different number of images and durations fails: it writes
\* no line of a manifest and runs no encoder.
C4_LengthMismatchRejected ==
    (pc # "start" /\ Len(section_images) # Len(user_durations)) =>
        /\ video = NoVideo
        /\ image_list \in {NoFile, <<>>}
        /\ ~ManifestWritten

\* C6: the manifest lists, in input order, one file line and one duration line
\* per slide, the file being the resized copy resized_i.jpg and the duration
\* the i-th normalized duration, then one more file line for the last image
\* and no duration after it.
C6_ManifestLayout ==
    (ManifestWritten /\ Len(section_images) = Len(user_durations)) =>
        LET n == Len(section_images)
        IN  /\ Len(image_list) = 2 * n + 1
            /\ \A i \in 1..n :
                   /\ image_list[2 * i - 1]
                          = "file 'resized_" \o ToString(i - 1) \o ".jpg'"
                   /\ image_list[2 * i - 1] # "file '" \o section_images[i] \o "'"
                   /\ image_list[2 * i]
                          = "duration " \o ToString(section_durations[i])
            /\ image_list[2 * n + 1]
                   = "file 'resized_" \o ToString(n - 1) \o ".jpg'"

C6_Witness ==
    /\ ManifestWritten
    /\ Len(section_images) = 3
    /\ Len(user_durations) = 3
    /\ section_durations # user_durations
    /\ video = "final_video.mp4"

\* C8: the shortfall step is idempotent: a second call with the list the first
\* call left behind and the same narration duration leaves the list unchanged.
C8_SecondCallChangesNothing ==
    (pc = "rendered again" /\ user_durations # <<>>
        /\ probes[1] # None /\ probes[2] = probes[1]) =>
        section_durations = user_durations

----------------------------------------------------------------------------
(* Properties of the session *)

Chunks == session_state["chunks"]

RenderInvoked == video # "not called"

Called(collaborator) ==
    \E i \in DOMAIN remote_calls : remote_calls[i] = collaborator

\* C5: a run in which a collaborator call failed leaves the session state it
\* found: failed text generation leaves the stored final script, failed
\* synthesis the stored audio path and audio file, a failed probe or encoder
\* run the synthesized audio.
C5_FailureLeavesStateUntouched ==
    [][/\ ("openai" \in failures' /\ "final_script" \in DOMAIN session_state) =>
              session_state'["final_script"] = session_state["final_script"]
       /\ "elevenlabs" \in failures' =>
              /\ DOMAIN session_state' = DOMAIN session_state
              /\ audio_file' = audio_file
       /\ (failures' \cap {"ffprobe", "ffmpeg"} # {}
              /\ "audio_path" \in DOMAIN session_state /\ ~Called("elevenlabs")') =>
              /\ session_state'["audio_path"] = session_state["audio_path"]
              /\ audio_file' = audio_file]_vars

\* C9: a render is invoked only with as many images and as many durations as
\* there are sections plus two; while any image is missing no durations are
\* collected, the button is not drawn and no render is invoked.
C9_RenderGetsOneSlidePerSection ==
    /\ RenderInvoked =>
           /\ Len(section_images) = Len(Chunks) + 2
           /\ Len(user_durations) = Len(Chunks) + 2
           /\ Len(section_durations) = Len(Chunks) + 2
    /\ Len(Images(Len(Chunks), uploads)) # Len(Chunks) + 2 =>
           /\ user_durations = <<>>
           /\ ~video_button
           /\ ~RenderInvoked

C9_Witness ==
    /\ video = "final_video.mp4"
    /\ Len(Chunks) = MaxSections
    /\ Len(section_images) = MaxSections + 2
    /\ section_durations # user_durations

\* C10: synthesis is called only once a final script is stored, a render only
\* once an audio path is stored; the audio path is first stored by a run whose
\* synthesis call succeeded, started from a state with a final script, and the
\* final script by a run that called text generation; neither key is ever
\* removed.
C10_StepsGated ==
    /\ [](/\ RenderInvoked => "audio_path" \in DOMAIN session_state
          /\ Called("elevenlabs") => "final_script" \in DOMAIN session_state
          /\ "audio_path" \in DOMAIN session_state =>
                 /\ "final_script" \in DOMAIN session_state
                 /\ audio_file # None)
    /\ [][/\ DOMAIN session_state \subseteq DOMAIN session_state'
          /\ RenderInvoked' =>
                 /\ "audio_path" \in DOMAIN session_state
                 /\ video_button
          /\ Called("elevenlabs")' => "final_script" \in DOMAIN session_state
          /\ ("audio_path" \in DOMAIN session_state'
                 /\ "audio_path" \notin DOMAIN session_state) =>
                 /\ "final_script" \in DOMAIN session_state
                 /\ Called("elevenlabs")'
                 /\ "elevenlabs" \notin failures'
          /\ ("final_script" \in DOMAIN session_state'
                 /\ "final_script" \notin DOMAIN session_state) =>
                 Called("openai")']_vars

C10_Witness ==
    /\ video = "final_video.mp4"
    /\ "audio_path" \in DOMAIN session_state
    /\ "final_script" \in DOMAIN session_state

====
